---- MODULE Spec2Model ----
(***************************************************************************)
(* A model of the Notes API (FastAPI + SQLAlchemy): the users and notes    *)
(* tables, the auth router (register, login) and the notes router (create, *)
(* list, get, update, delete).                                             *)
(*                                                                         *)
(* Every handler is an operator from the database and the request to the   *)
(* HTTP response and the database it leaves; the actions apply the         *)
(* handlers to the tables.  The properties quantify over the requests a    *)
(* client can send in a reachable state.                                   *)
(*                                                                         *)
(* Spec     : requests are served one after the other; every handler is    *)
(*            one action.                                                  *)
(* SpecHist : Spec at one instant (the clock does not advance), with the   *)
(*            history of the deletes answered 204 kept.                    *)
(* SpecConc : register requests interleave between the username lookup and *)
(*            the INSERT (each handler runs in its own worker thread with  *)
(*            its own database session).                                   *)
(* SpecRace : update and delete requests on notes interleave between the   *)
(*            existence check and the commit.                              *)
(*                                                                         *)
(* Left out: the created_at column of notes (written once by the INSERT,   *)
(* never by an UPDATE) and request-shape validation (requests are drawn    *)
(* from the shape-valid ones).                                             *)
(***************************************************************************)
EXTENDS Integers, Sequences, FiniteSets, TLC

VARIABLES
    dialect,    \* the storage engine behind DATABASE_URL
    now,        \* the wall clock, in minutes
    users,      \* table users: id -> row
    user_seq,   \* last value of the users id sequence (postgresql)
    notes,      \* table notes: id -> row
    note_seq,   \* last value of the notes id sequence (postgresql)
    pending,    \* requests between their lookup and their write (SpecConc,
                \* SpecRace)
    deleted     \* history: <<user id, note id>> of every delete answered 204
                \* (SpecHist)

vars == <<dialect, now, users, user_seq, notes, note_seq, pending, deleted>>

----------------------------------------------------------------------------
(* Bounds of the model *)

MaxUserId == 3
MaxNoteId == 2
MaxTime == 40
TickMinutes == 20
MaxInFlight == 2

(* Inputs *)

Usernames == {"alice", "Alice"}
Passwords == {"secret1"}
WrongPasswords == {"wrongpass"}
\* A title of 256 characters: the request schema puts no bound on the length.
LongTitle ==
    "Shopping list for the week, Shopping list for the week, Shopping list for the week, Shopping list for the week, Shopping list for the week, Shopping list for the week, Shopping list for the week, Shopping list for the week, Shopping list for the week, eggs"

Titles == {"Shopping", "Chores", LongTitle}
Bodies == {"milk"}
Salts == {"salt"}
Skips == {-1, 0, 1}
Limits == {-1, 1, 100}
NoteIds == 1..MaxNoteId

NULL == "<null>"
Unset == "<unset>"

----------------------------------------------------------------------------
(* Configuration *)

Dialects == {"postgresql", "sqlite"}
ACCESS_TOKEN_EXPIRE_MINUTES == 30
TITLE_MAX_LENGTH == 255
SECRET_KEY == "09d25e09"

utc_now == now

----------------------------------------------------------------------------
(* Storage *)

DB == [users |-> users, user_seq |-> user_seq,
       notes |-> notes, note_seq |-> note_seq]

MaxOf(S) == CHOOSE m \in S : \A x \in S : x <= m

\* Integer primary key without explicit value: SERIAL (a sequence, never
\* handing out a value twice) on postgresql, max(rowid) + 1 on sqlite.
NextId(table, seq) ==
    IF dialect = "postgresql" THEN seq + 1
    ELSE MaxOf(DOMAIN table \cup {0}) + 1

NextSeq(seq) == IF dialect = "postgresql" THEN seq + 1 ELSE seq

Remove(table, id) == [i \in DOMAIN table \ {id} |-> table[i]]

The(S) == CHOOSE x \in S : TRUE

----------------------------------------------------------------------------
(* HTTP responses *)

Response(status, detail, headers, body) ==
    [status |-> status, detail |-> detail, headers |-> headers, body |-> body]

Unauthorized ==
    Response(401, "Could not validate credentials",
             {<<"WWW-Authenticate", "Bearer">>}, <<>>)

NotFound(note_id) ==
    Response(404, <<"Note with id", note_id, "not found">>, {}, <<>>)

InternalError == Response(500, "Internal Server Error", {}, <<>>)

\* What a handler leaves: the response and the database.
Result(response, db) == [resp |-> response, db |-> db]

----------------------------------------------------------------------------
(* app.core.security *)

get_password_hash(password, salt) ==
    [salt |-> salt, digest |-> <<salt, password>>]

verify_password(password, hashed) ==
    hashed.digest = <<hashed.salt, password>>

create_access_token(sub, expires_delta, at) ==
    [sub |-> sub, exp |-> at + expires_delta, sig |-> SECRET_KEY]

----------------------------------------------------------------------------
(* app.crud.user *)

Lower(s) == IF s = "Alice" THEN "alice" ELSE s

\* Mutant: the lookup compares the names case-insensitively.
get_user_by_username_nocase(db, username) ==
    {i \in DOMAIN db.users : Lower(db.users[i].username) = Lower(username)}

get_user_by_username(db, username) ==
    {i \in DOMAIN db.users : db.users[i].username = username}

\* Mutant: the column is declared without unique=True.
NoUniqueConstraint(db, username) == FALSE

\* users.username is UNIQUE: the INSERT of a second row with the name fails.
UsernameUniqueViolation(db, username) ==
    \E i \in DOMAIN db.users : db.users[i].username = username

\* Mutant: the password is not verified.
authenticate_user_no_verify(db, username, password) ==
    get_user_by_username(db, username)

authenticate_user(db, username, password) ==
    {i \in get_user_by_username(db, username) :
        verify_password(password, db.users[i].hashed_password)}

\* Token Service verify, then the lookup of the subject: the caller's user
\* id, or nothing (401).
get_current_user(db, token) ==
    IF token.sig # SECRET_KEY \/ token.exp < utc_now THEN {}
    ELSE get_user_by_username(db, token.sub)

UserRead(db, id) ==
    [id |-> id, username |-> db.users[id].username,
     created_at |-> db.users[id].created_at]

\* INSERT INTO users, COMMIT, refresh.
create_user(db, user_in, salt) ==
    IF UsernameUniqueViolation(db, user_in.username)
    THEN Result(InternalError,
                [db EXCEPT !.user_seq = NextSeq(db.user_seq)])
    ELSE LET id == NextId(db.users, db.user_seq)
             after == [db EXCEPT
                 !.users = db.users @@ (id :>
                     [username |-> user_in.username,
                      hashed_password |->
                          get_password_hash(user_in.password, salt),
                      created_at |-> utc_now]),
                 !.user_seq = NextSeq(db.user_seq)]
         IN Result(Response(201, "", {}, <<UserRead(after, id)>>), after)

----------------------------------------------------------------------------
(* app.api.v1.auth *)

register(db, user_in, salt) ==
    IF get_user_by_username(db, user_in.username) # {}
    THEN Result(Response(400, "Username already registered", {}, <<>>), db)
    ELSE create_user(db, user_in, salt)

\* Mutant: the token is created with no lifetime.
login_no_ttl(db, user_login) ==
    LET user == authenticate_user(db, user_login.username,
                                  user_login.password) IN
    IF user = {}
    THEN Result(Response(401, "Incorrect username or password",
                         {<<"WWW-Authenticate", "Bearer">>}, <<>>), db)
    ELSE Result(Response(200, "", {},
                    <<[access_token |->
                          create_access_token(db.users[The(user)].username,
                                              0, utc_now),
                       token_type |-> "bearer"]>>), db)

login(db, user_login) ==
    LET user == authenticate_user(db, user_login.username,
                                  user_login.password) IN
    IF user = {}
    THEN Result(Response(401, "Incorrect username or password",
                         {<<"WWW-Authenticate", "Bearer">>}, <<>>), db)
    ELSE LET access_token ==
                 create_access_token(db.users[The(user)].username,
                                     ACCESS_TOKEN_EXPIRE_MINUTES, utc_now)
         IN Result(Response(200, "", {},
                       <<[access_token |-> access_token,
                          token_type |-> "bearer"]>>), db)

----------------------------------------------------------------------------
(* app.crud.note *)

\* Mutant: the query filters on the id alone.
crud_get_note_any_owner(db, note_id, user_id) ==
    {i \in DOMAIN db.notes : i = note_id}

crud_get_note(db, note_id, user_id) ==
    {i \in DOMAIN db.notes : i = note_id /\ db.notes[i].user_id = user_id}

Orderings(S) ==
    {q \in [1..Cardinality(S) -> S] :
        \A i, j \in DOMAIN q : i # j => q[i] # q[j]}

Min(a, b) == IF a < b THEN a ELSE b

\* skip and limit are any integers of the query string.  A negative OFFSET
\* or LIMIT is an error of the statement on postgresql; sqlite reads a
\* negative OFFSET as 0 and a negative LIMIT as no limit.
OffsetLimitFails(skip, limit) ==
    dialect = "postgresql" /\ (skip < 0 \/ limit < 0)

Page(q, skip, limit) ==
    LET offset == IF skip < 0 THEN 0 ELSE skip
        last == IF limit < 0 THEN Len(q) ELSE Min(Len(q), offset + limit)
    IN SubSeq(q, offset + 1, last)

\* The rows of the owner in an order the storage chooses (the query has no
\* ORDER BY), then OFFSET skip LIMIT limit: every list it may return.
crud_get_notes(db, user_id, skip, limit) ==
    {Page(q, skip, limit) :
        q \in Orderings({i \in DOMAIN db.notes :
                            db.notes[i].user_id = user_id})}

\* notes.title is VARCHAR(255): postgresql rejects a longer value, sqlite
\* does not enforce the declared length.
TitleTooLong(title) ==
    dialect = "postgresql" /\ title # NULL /\ Len(title) > TITLE_MAX_LENGTH

NoteRead(db, id) ==
    [id |-> id, title |-> db.notes[id].title, body |-> db.notes[id].body,
     updated_at |-> db.notes[id].updated_at]

\* The value of a payload field: None when the request left it out.
FieldValue(note_in, f) == IF note_in[f] = Unset THEN NULL ELSE note_in[f]

\* Mutant: the body of the payload is not passed to the row.
crud_create_note_no_body(db, note_in, user_id) ==
    LET id == NextId(db.notes, db.note_seq)
        after == [db EXCEPT
            !.notes = db.notes @@ (id :>
                [title |-> note_in.title,
                 body |-> NULL,
                 user_id |-> user_id,
                 updated_at |-> utc_now]),
            !.note_seq = NextSeq(db.note_seq)]
    IN Result(Response(201, "", {}, <<NoteRead(after, id)>>), after)

crud_create_note(db, note_in, user_id) ==
    IF TitleTooLong(note_in.title)
    THEN \* the INSERT fails, nothing is committed (the id drawn is lost)
         Result(InternalError, [db EXCEPT !.note_seq = NextSeq(db.note_seq)])
    ELSE
    LET id == NextId(db.notes, db.note_seq)
        after == [db EXCEPT
            !.notes = db.notes @@ (id :>
                [title |-> note_in.title,
                 body |-> FieldValue(note_in, "body"),
                 user_id |-> user_id,
                 updated_at |-> utc_now]),
            !.note_seq = NextSeq(db.note_seq)]
    IN Result(Response(201, "", {}, <<NoteRead(after, id)>>), after)

\* Mutant: model_dump() without exclude_unset, the unset fields read None.
model_dump_all(note_in) == DOMAIN note_in

\* note_in.model_dump(exclude_unset=True): the fields the payload carries.
model_dump(note_in) == {f \in DOMAIN note_in : note_in[f] # Unset}

\* The columns the flush writes: the attributes set to a value that differs
\* from the loaded one; when there is none, no UPDATE is emitted.
DirtyColumns(loaded, note_in) ==
    {f \in model_dump(note_in) : FieldValue(note_in, f) # loaded[f]}

\* UPDATE notes SET <dirty columns>, updated_at = utc_now() WHERE id = :id
ApplyUpdate(row, note_in, dirty) ==
    IF dirty = {} THEN row
    ELSE [f \in DOMAIN row |->
            IF f \in dirty THEN FieldValue(note_in, f)
            ELSE IF f = "updated_at" THEN utc_now
            ELSE row[f]]

\* Mutant: the fields are written one by one, the body before the title
\* fails.
crud_update_note_partial(db, note_id, note_in) ==
    LET dirty == DirtyColumns(db.notes[note_id], note_in) IN
    IF /\ "title" \in dirty
       /\ \/ FieldValue(note_in, "title") = NULL
          \/ TitleTooLong(FieldValue(note_in, "title"))
    THEN Result(InternalError,
                [db EXCEPT !.notes[note_id] =
                    ApplyUpdate(@, note_in, dirty \ {"title"})])
    ELSE LET after == [db EXCEPT !.notes[note_id] =
                            ApplyUpdate(@, note_in, dirty)]
         IN Result(Response(200, "", {}, <<NoteRead(after, note_id)>>),
                   after)

crud_update_note(db, note_id, note_in) ==
    LET dirty == DirtyColumns(db.notes[note_id], note_in) IN
    IF /\ "title" \in dirty
       /\ \/ FieldValue(note_in, "title") = NULL
          \/ TitleTooLong(FieldValue(note_in, "title"))
    THEN \* notes.title is NOT NULL and VARCHAR(255): the UPDATE fails,
         \* nothing is committed
         Result(InternalError, db)
    ELSE LET after == [db EXCEPT !.notes[note_id] =
                            ApplyUpdate(@, note_in, dirty)]
         IN Result(Response(200, "", {}, <<NoteRead(after, note_id)>>),
                   after)

crud_delete_note(db, note_id) ==
    Result(Response(204, "", {}, <<>>),
           [db EXCEPT !.notes = Remove(db.notes, note_id)])

----------------------------------------------------------------------------
(* app.api.v1.notes *)

create_note(db, token, note_in) ==
    LET current_user == get_current_user(db, token) IN
    IF current_user = {} THEN Result(Unauthorized, db)
    ELSE crud_create_note(db, note_in, The(current_user))

read_notes(db, token, skip, limit) ==
    LET current_user == get_current_user(db, token) IN
    IF current_user = {} THEN {Result(Unauthorized, db)}
    ELSE IF OffsetLimitFails(skip, limit) THEN {Result(InternalError, db)}
    ELSE {Result(Response(200, "", {},
                          [k \in DOMAIN q |-> NoteRead(db, q[k])]), db) :
            q \in crud_get_notes(db, The(current_user), skip, limit)}

\* Mutant: the route is declared without the current-user dependency.
read_note_no_auth(db, token, note_id) ==
    IF note_id \notin DOMAIN db.notes THEN Result(NotFound(note_id), db)
    ELSE Result(Response(200, "", {}, <<NoteRead(db, note_id)>>), db)

read_note(db, token, note_id) ==
    LET current_user == get_current_user(db, token) IN
    IF current_user = {} THEN Result(Unauthorized, db)
    ELSE IF crud_get_note(db, note_id, The(current_user)) = {}
         THEN Result(NotFound(note_id), db)
         ELSE Result(Response(200, "", {}, <<NoteRead(db, note_id)>>), db)

update_note(db, token, note_id, note_in) ==
    LET current_user == get_current_user(db, token) IN
    IF current_user = {} THEN Result(Unauthorized, db)
    ELSE IF crud_get_note(db, note_id, The(current_user)) = {}
         THEN Result(NotFound(note_id), db)
         ELSE crud_update_note(db, note_id, note_in)

\* Mutant: the note of another user is answered 403.
delete_note_forbidden(db, token, note_id) ==
    LET current_user == get_current_user(db, token) IN
    IF current_user = {} THEN Result(Unauthorized, db)
    ELSE IF note_id \notin DOMAIN db.notes
         THEN Result(NotFound(note_id), db)
         ELSE IF db.notes[note_id].user_id # The(current_user)
              THEN Result(Response(403, "Forbidden", {}, <<>>), db)
              ELSE crud_delete_note(db, note_id)

delete_note(db, token, note_id) ==
    LET current_user == get_current_user(db, token) IN
    IF current_user = {} THEN Result(Unauthorized, db)
    ELSE IF crud_get_note(db, note_id, The(current_user)) = {}
         THEN Result(NotFound(note_id), db)
         ELSE crud_delete_note(db, note_id)

----------------------------------------------------------------------------
(* The requests a client can send *)

Times == {t \in 0..(MaxTime + TickMinutes) : t % TickMinutes = 0}

\* The tokens login has been able to answer with so far: one per user and
\* instant since the user was registered (the service keeps no token state).
IssuedTokens ==
    UNION {{create_access_token(users[i].username,
                                ACCESS_TOKEN_EXPIRE_MINUTES, t) :
               t \in {x \in Times : users[i].created_at <= x /\ x <= now}} :
           i \in DOMAIN users}

NoToken == [sub |-> "", exp |-> 0, sig |-> ""]

Forged(sub) ==
    [sub |-> sub, exp |-> MaxTime + ACCESS_TOKEN_EXPIRE_MINUTES,
     sig |-> "forged"]

\* What a client can put in the Authorization header.
PresentedTokens ==
    IssuedTokens \cup {NoToken} \cup {Forged(u) : u \in Usernames}

UserCreates == [username : Usernames, password : Passwords]
UserLogins == [username : Usernames,
               password : Passwords \cup WrongPasswords]
NoteCreates == [title : Titles, body : Bodies \cup {Unset}]
NoteUpdates == [title : Titles \cup {Unset, NULL},
                body : Bodies \cup {Unset, NULL}]

----------------------------------------------------------------------------------------------------------------------------------------
(* The state machine *)

Idle(status) == [op |-> "idle", user_in |-> <<>>, status |-> status]

Init ==
    /\ dialect \in Dialects
    /\ now = 0
    /\ users = <<>>
    /\ user_seq = 0
    /\ notes = <<>>
    /\ note_seq = 0
    /\ pending = [s \in 1..MaxInFlight |-> Idle(0)]
    /\ deleted = {}

\* Commit what the handler leaves, within the bounds of the model.
Commit(r) ==
    /\ \A i \in DOMAIN r.db.users : i <= MaxUserId
    /\ \A i \in DOMAIN r.db.notes : i <= MaxNoteId
    /\ r.db.user_seq <= MaxUserId
    /\ r.db.note_seq <= MaxNoteId
    /\ users' = r.db.users
    /\ user_seq' = r.db.user_seq
    /\ notes' = r.db.notes
    /\ note_seq' = r.db.note_seq

Tick ==
    /\ now < MaxTime
    /\ now' = now + TickMinutes
    /\ UNCHANGED <<dialect, users, user_seq, notes, note_seq, pending,
                   deleted>>

Register(user_in, salt) ==
    \E r \in {register(DB, user_in, salt)} :
        /\ Commit(r)
        /\ UNCHANGED <<dialect, now, pending, deleted>>

Login(user_login) ==
    \E r \in {login(DB, user_login)} :
        /\ Commit(r)
        /\ UNCHANGED <<dialect, now, pending, deleted>>

CreateNote(token, note_in) ==
    \E r \in {create_note(DB, token, note_in)} :
        /\ Commit(r)
        /\ UNCHANGED <<dialect, now, pending, deleted>>

ReadNotes(token, skip, limit) ==
    \E r \in read_notes(DB, token, skip, limit) :
        /\ Commit(r)
        /\ UNCHANGED <<dialect, now, pending, deleted>>

ReadNote(token, note_id) ==
    \E r \in {read_note(DB, token, note_id)} :
        /\ Commit(r)
        /\ UNCHANGED <<dialect, now, pending, deleted>>

UpdateNote(token, note_id, note_in) ==
    \E r \in {update_note(DB, token, note_id, note_in)} :
        /\ Commit(r)
        /\ UNCHANGED <<dialect, now, pending, deleted>>

DeleteNote(token, note_id, history) ==
    \E r \in {delete_note(DB, token, note_id)} :
        /\ Commit(r)
        /\ deleted' = IF history /\ r.resp.status = 204
                      THEN deleted \cup
                           {<<The(get_current_user(DB, token)), note_id>>}
                      ELSE deleted
        /\ UNCHANGED <<dialect, now, pending>>

Requests(history) ==
    \/ \E c \in UserCreates, s \in Salts : Register(c, s)
    \/ \E c \in UserLogins : Login(c)
    \/ \E t \in PresentedTokens, n \in NoteCreates : CreateNote(t, n)
    \/ \E t \in PresentedTokens, sk \in Skips, li \in Limits :
          ReadNotes(t, sk, li)
    \/ \E t \in PresentedTokens, n \in NoteIds : ReadNote(t, n)
    \/ \E t \in PresentedTokens, n \in NoteIds, u \in NoteUpdates :
          UpdateNote(t, n, u)
    \/ \E t \in PresentedTokens, n \in NoteIds : DeleteNote(t, n, history)

Next == Tick \/ Requests(FALSE)

Spec == Init /\ [][Next]_vars

NextHist == Requests(TRUE)

SpecHist == Init /\ [][NextHist]_vars

----------------------------------------------------------------------------
(* Interleaved register requests *)

\* register up to the lookup: 400 when the name is taken, else on to the
\* INSERT.
RegisterLookup(s, user_in) ==
    /\ pending[s].op = "idle"
    /\ pending' = [pending EXCEPT ![s] =
          IF get_user_by_username(DB, user_in.username) # {}
          THEN Idle(400)
          ELSE [op |-> "register", user_in |-> user_in, status |-> 0]]
    /\ UNCHANGED <<dialect, now, users, user_seq, notes, note_seq, deleted>>

\* crud_user.create_user: the INSERT and COMMIT, then the response.
RegisterInsert(s, salt) ==
    /\ pending[s].op = "register"
    /\ \E r \in {create_user(DB, pending[s].user_in, salt)} :
          /\ Commit(r)
          /\ pending' = [pending EXCEPT ![s] = Idle(r.resp.status)]
    /\ UNCHANGED <<dialect, now, deleted>>

NextConc ==
    \/ Tick
    \/ \E s \in 1..MaxInFlight, c \in UserCreates : RegisterLookup(s, c)
    \/ \E s \in 1..MaxInFlight, salt \in Salts : RegisterInsert(s, salt)

SpecConc == Init /\ [][NextConc]_vars

----------------------------------------------------------------------------
(* Interleaved update and delete requests on one note *)

\* crud_note.update_note in a session that loaded the row before other
\* requests committed: the UPDATE writes the attributes that differ from the
\* loaded ones WHERE id = :id, and the flush fails when it matches no row
\* (StaleDataError), as does the refresh of a row that is gone.
stale_update_note(db, note_id, loaded, note_in) ==
    LET dirty == DirtyColumns(loaded, note_in) IN
    IF note_id \notin DOMAIN db.notes THEN Result(InternalError, db)
    ELSE IF /\ "title" \in dirty
            /\ \/ FieldValue(note_in, "title") = NULL
               \/ TitleTooLong(FieldValue(note_in, "title"))
         THEN Result(InternalError, db)
         ELSE LET after == [db EXCEPT !.notes[note_id] =
                                 ApplyUpdate(@, note_in, dirty)]
              IN Result(Response(200, "", {}, <<NoteRead(after, note_id)>>),
                        after)

\* The payloads of the interleaved requests: each is answered 201 or 200
\* when it is served alone.
RaceCreates == [title : {"Shopping"}, body : {Unset}]
RaceUpdates == [title : {"Chores", Unset}, body : {"milk", Unset}]

RaceRegister ==
    \E c \in {x \in UserCreates : x.username = "alice"}, s \in Salts :
        Register(c, s)

RaceCreateNote ==
    \E t \in IssuedTokens, c \in RaceCreates : CreateNote(t, c)

\* update_note or delete_note up to the existence check: 401 or 404, else
\* on to the crud call with the row it loaded.
NoteLookup(s, token, note_id, op, note_in) ==
    /\ pending[s].op = "idle"
    /\ LET current_user == get_current_user(DB, token) IN
       pending' = [pending EXCEPT ![s] =
          IF current_user = {} THEN Idle(401)
          ELSE IF crud_get_note(DB, note_id, The(current_user)) = {}
               THEN Idle(404)
               ELSE [op |-> op, note_id |-> note_id,
                     loaded |-> notes[note_id], note_in |-> note_in,
                     status |-> 0]]
    /\ UNCHANGED <<dialect, now, users, user_seq, notes, note_seq, deleted>>

\* crud_note.update_note of a request that passed the existence check.
UpdateCommit(s) ==
    /\ pending[s].op = "update"
    /\ \E r \in {stale_update_note(DB, pending[s].note_id, pending[s].loaded,
                                    pending[s].note_in)} :
          /\ Commit(r)
          /\ pending' = [pending EXCEPT ![s] = Idle(r.resp.status)]
    /\ UNCHANGED <<dialect, now, deleted>>

\* crud_note.delete_note of a request that passed the existence check: a
\* DELETE that matches no row only warns.
DeleteCommit(s) ==
    /\ pending[s].op = "delete"
    /\ \E r \in {crud_delete_note(DB, pending[s].note_id)} :
          /\ Commit(r)
          /\ pending' = [pending EXCEPT ![s] = Idle(r.resp.status)]
    /\ UNCHANGED <<dialect, now, deleted>>

NextRace ==
    \/ RaceRegister
    \/ RaceCreateNote
    \/ \E s \in 1..MaxInFlight, t \in IssuedTokens, n \in NoteIds,
          u \in RaceUpdates : NoteLookup(s, t, n, "update", u)
    \/ \E s \in 1..MaxInFlight, t \in IssuedTokens, n \in NoteIds :
          NoteLookup(s, t, n, "delete", [title |-> Unset, body |-> Unset])
    \/ \E s \in 1..MaxInFlight : UpdateCommit(s)
    \/ \E s \in 1..MaxInFlight : DeleteCommit(s)

SpecRace == Init /\ [][NextRace]_vars

----------------------------------------------------------------------------
(* Properties *)

\* The user a token was issued to.
UserOf(token) == The({i \in DOMAIN users : users[i].username = token.sub})

\* Tokens login has issued that have not reached their expiry.
FreshTokens == {t \in IssuedTokens : now < t.exp}

\* Tokens that authenticate nobody: missing, not signed by the service, or
\* past their expiry.
InvalidTokens ==
    {t \in PresentedTokens :
        t = NoToken \/ t.sig # SECRET_KEY \/ t.exp < now}

\* C1 (isolation): in every reachable state and for every user B holding a
\* valid token, every list B can be answered holds rows owned by B only,
\* and B's get, update and delete on the id of a note owned by another
\* user each return 404 and leave the note as it is; no request changes the
\* owner of a note.
C1_Isolation ==
    \A t \in FreshTokens :
        /\ \A sk \in Skips, li \in Limits :
              \A r \in read_notes(DB, t, sk, li) :
                 /\ r.resp.status \in {200, 500}
                 /\ \A k \in DOMAIN r.resp.body :
                       /\ r.resp.body[k].id \in DOMAIN notes
                       /\ notes[r.resp.body[k].id].user_id = UserOf(t)
        /\ \A n \in DOMAIN notes :
              IF notes[n].user_id # UserOf(t)
              THEN /\ read_note(DB, t, n).resp.status = 404
                   /\ delete_note(DB, t, n).resp.status = 404
                   /\ delete_note(DB, t, n).db = DB
                   /\ \A u \in NoteUpdates :
                         /\ update_note(DB, t, n, u).resp.status = 404
                         /\ update_note(DB, t, n, u).db = DB
              ELSE \A u \in NoteUpdates :
                      update_note(DB, t, n, u).db.notes[n].user_id = UserOf(t)

\* Two users, a note of each, and the second user's get on the first
\* user's note answered 404 while the list shows the caller's own note.
C1_Witness ==
    \E t \in FreshTokens, n \in DOMAIN notes, m \in DOMAIN notes :
        /\ notes[n].user_id # UserOf(t)
        /\ notes[m].user_id = UserOf(t)
        /\ read_note(DB, t, n).resp.status = 404
        /\ update_note(DB, t, n, [title |-> "Chores", body |-> Unset])
              .resp.status = 404
        /\ delete_note(DB, t, n).resp.status = 404
        /\ \E r \in read_notes(DB, t, 0, 100) :
              Len(r.resp.body) = 1 /\ r.resp.body[1].id = m

\* C2 (unauthenticated access): a request to any /notes route with no
\* token, a token not signed by the service or an expired token is answered
\* 401 whatever its payload or note id, and leaves users and notes
\* unchanged.
C2_Unauthenticated ==
    \A t \in InvalidTokens :
        /\ \A c \in NoteCreates :
              /\ create_note(DB, t, c).resp.status = 401
              /\ create_note(DB, t, c).db = DB
        /\ \A sk \in Skips, li \in Limits :
              \A r \in read_notes(DB, t, sk, li) :
                 r.resp.status = 401 /\ r.db = DB
        /\ \A n \in NoteIds :
              /\ read_note(DB, t, n).resp.status = 401
              /\ read_note(DB, t, n).db = DB
              /\ delete_note(DB, t, n).resp.status = 401
              /\ delete_note(DB, t, n).db = DB
              /\ \A u \in NoteUpdates :
                    /\ update_note(DB, t, n, u).resp.status = 401
                    /\ update_note(DB, t, n, u).db = DB

\* A note exists and its owner's token has expired: the owner's delete of
\* it is answered 401, as is a get without a token.
C2_Witness ==
    \E t \in IssuedTokens, n \in DOMAIN notes :
        /\ t.exp < now
        /\ notes[n].user_id = UserOf(t)
        /\ delete_note(DB, t, n).resp.status = 401
        /\ read_note(DB, NoToken, n).resp.status = 401
        /\ read_note(DB, Forged(t.sub), n).resp.status = 401

\* C3 (register twice): a register whose username no stored user has
\* exactly (case-sensitively) is answered 201 and adds one user with that
\* name; a register of the same username right after it, and any register
\* of a stored username, is answered 400 "Username already registered" and
\* adds no user.
C3_RegisterTwice ==
    \A c \in UserCreates, s \in Salts :
        LET r1 == register(DB, c, s) IN
        IF \E i \in DOMAIN users : users[i].username = c.username
        THEN /\ r1.resp.status = 400
             /\ r1.resp.detail = "Username already registered"
             /\ r1.db.users = users
        ELSE /\ r1.resp.status = 201
             /\ Cardinality(DOMAIN r1.db.users) = Cardinality(DOMAIN users) + 1
             /\ \A i \in DOMAIN users :
                   i \in DOMAIN r1.db.users /\ r1.db.users[i] = users[i]
             /\ \E i \in DOMAIN r1.db.users \ DOMAIN users :
                   /\ r1.db.users[i].username = c.username
                   /\ r1.resp.body[1].id = i
                   /\ r1.resp.body[1].username = c.username
             /\ \A c2 \in UserCreates, s2 \in Salts :
                   c2.username = c.username =>
                      LET r2 == register(r1.db, c2, s2) IN
                      /\ r2.resp.status = 400
                      /\ r2.resp.detail = "Username already registered"
                      /\ r2.db.users = r1.db.users

\* "alice" is registered and "Alice" is not: registering "alice" again is
\* answered 400, registering "Alice" 201.
C3_Witness ==
    /\ \E i \in DOMAIN users : users[i].username = "alice"
    /\ \A i \in DOMAIN users : users[i].username # "Alice"
    /\ \A c \in UserCreates, s \in Salts :
          /\ c.username = "alice" => register(DB, c, s).resp.status = 400
          /\ c.username = "Alice" => register(DB, c, s).resp.status = 201

\* C4 (username uniqueness): in every reachable state, also when register
\* requests interleave between lookup and INSERT, no two stored users have
\* the same username.
C4_UsernameUnique ==
    \A i, j \in DOMAIN users :
        users[i].username = users[j].username => i = j

\* Two register requests for one free username both passed the lookup; one
\* INSERT committed and the other failed on the unique constraint.
C4_Witness ==
    \E s1, s2 \in 1..MaxInFlight :
        /\ pending[s1].status = 201
        /\ pending[s2].status = 500
        /\ Cardinality(DOMAIN users) = 1

\* The credentials of a stored user: its username and the password its
\* hash was made from.
Registered(c) ==
    \E i \in DOMAIN users :
        /\ users[i].username = c.username
        /\ users[i].hashed_password =
              get_password_hash(c.password, users[i].hashed_password.salt)

\* C5 (login): with the username and password of a registered user login
\* answers 200 with an access token for that user and token_type "bearer";
\* with a wrong password or an unknown username it answers one and the same
\* 401 response (status, detail, headers, body), and it never changes the
\* database.
C5_Login ==
    \A c \in UserLogins :
        LET r == login(DB, c) IN
        /\ r.db = DB
        /\ IF Registered(c)
           THEN /\ r.resp.status = 200
                /\ Len(r.resp.body) = 1
                /\ r.resp.body[1].token_type = "bearer"
                /\ r.resp.body[1].access_token.sub = c.username
                /\ get_current_user(DB, r.resp.body[1].access_token) =
                      {i \in DOMAIN users : users[i].username = c.username}
           ELSE /\ r.resp.status = 401
                /\ r.resp.detail = "Incorrect username or password"
                /\ \A c2 \in UserLogins :
                      ~Registered(c2) => login(DB, c2).resp = r.resp

\* "alice" is registered and "Alice" is not: the right password is
\* answered 200, the wrong password and the unknown username 401.
C5_Witness ==
    /\ \E i \in DOMAIN users : users[i].username = "alice"
    /\ \A i \in DOMAIN users : users[i].username # "Alice"
    /\ login(DB, [username |-> "alice", password |-> "secret1"])
          .resp.status = 200
    /\ login(DB, [username |-> "alice", password |-> "wrongpass"])
          .resp.status = 401
    /\ login(DB, [username |-> "Alice", password |-> "secret1"])
          .resp.status = 401

\* Every /notes request with the token is answered 401.
AllUnauthorized(t) ==
    /\ \A c \in NoteCreates : create_note(DB, t, c).resp.status = 401
    /\ \A sk \in Skips, li \in Limits :
          \A r \in read_notes(DB, t, sk, li) : r.resp.status = 401
    /\ \A n \in NoteIds :
          /\ read_note(DB, t, n).resp.status = 401
          /\ delete_note(DB, t, n).resp.status = 401
          /\ \A u \in NoteUpdates : update_note(DB, t, n, u).resp.status = 401

\* Every /notes request with the token is served as user uid.
ResolvesTo(t, uid) ==
    /\ \A c \in NoteCreates :
          LET r == create_note(DB, t, c) IN
          /\ r.resp.status \in {201, 500}
          /\ r.resp.status = 201 =>
                r.db.notes[r.resp.body[1].id].user_id = uid
    /\ \A sk \in Skips, li \in Limits :
          \A r \in read_notes(DB, t, sk, li) :
             /\ r.resp.status \in {200, 500}
             /\ \A k \in DOMAIN r.resp.body :
                   notes[r.resp.body[k].id].user_id = uid
    /\ \A n \in NoteIds :
          LET own == n \in DOMAIN notes /\ notes[n].user_id = uid IN
          /\ read_note(DB, t, n).resp.status = IF own THEN 200 ELSE 404
          /\ delete_note(DB, t, n).resp.status = IF own THEN 204 ELSE 404
          /\ \A u \in NoteUpdates :
                update_note(DB, t, n, u).resp.status \in
                   IF own THEN {200, 500} ELSE {404}

\* C6 (token lifetime): the token login answers with expires 30 minutes
\* after the login; a token issued by login for user U is served as U on
\* every /notes request made before its expiry, in every state reached
\* since (nothing revokes it), and every /notes request made with it after
\* its expiry is answered 401.
C6_TokenLifetime ==
    /\ \A c \in UserLogins :
          LET r == login(DB, c) IN
          r.resp.status = 200 =>
             /\ r.resp.body[1].access_token.exp = now + 30
             /\ r.resp.body[1].access_token \in IssuedTokens
    /\ \A t \in IssuedTokens :
          /\ now < t.exp => ResolvesTo(t, UserOf(t))
          /\ now > t.exp => AllUnauthorized(t)

\* 40 minutes after startup: a token issued at startup has expired and is
\* answered 401, a token issued 20 minutes ago still lists its user's note.
C6_Witness ==
    \E t1, t2 \in IssuedTokens :
        /\ t1.sub = t2.sub
        /\ t1.exp < now
        /\ now < t2.exp
        /\ t2.exp < now + 30
        /\ \E n \in DOMAIN notes :
              /\ notes[n].user_id = UserOf(t1)
              /\ read_note(DB, t1, n).resp.status = 401
              /\ read_note(DB, t2, n).resp.status = 200

\* The valid tokens of the owner of note n.
OwnerTokens(n) == {t \in FreshTokens : UserOf(t) = notes[n].user_id}

\* C7 (partial update): an update answered 200 sets exactly the fields its
\* payload carries and returns the stored note; whatever the answer, a
\* field the payload does not carry keeps its value (title only leaves
\* body, body only leaves title), and the owner and the other notes are
\* untouched.
C7_PartialUpdate ==
    \A n \in DOMAIN notes :
        \A t \in OwnerTokens(n), u \in NoteUpdates :
            LET r == update_note(DB, t, n, u) IN
            /\ n \in DOMAIN r.db.notes
            /\ \A f \in {"title", "body"} :
                  /\ u[f] = Unset => r.db.notes[n][f] = notes[n][f]
                  /\ r.resp.status = 200 /\ u[f] # Unset =>
                        r.db.notes[n][f] = u[f]
            /\ r.resp.status = 200 =>
                  /\ r.resp.body[1].title = r.db.notes[n].title
                  /\ r.resp.body[1].body = r.db.notes[n].body
            /\ r.db.notes[n].user_id = notes[n].user_id
            /\ \A m \in DOMAIN notes \ {n} :
                  m \in DOMAIN r.db.notes /\ r.db.notes[m] = notes[m]
            /\ r.db.users = users

\* A note with a body whose title alone was updated, and whose body alone
\* can be: each update is answered 200 and keeps the other field.
C7_Witness ==
    \E n \in DOMAIN notes :
        \E t \in OwnerTokens(n) :
            /\ notes[n].title = "Shopping"
            /\ notes[n].body = "milk"
            /\ notes[n].updated_at > 0
            /\ LET r == update_note(DB, t, n,
                            [title |-> "Chores", body |-> Unset]) IN
               /\ r.resp.status = 200
               /\ r.db.notes[n].title = "Chores"
               /\ r.db.notes[n].body = "milk"
            /\ LET r == update_note(DB, t, n,
                            [title |-> Unset, body |-> NULL]) IN
               /\ r.resp.status = 200
               /\ r.db.notes[n].title = "Shopping"
               /\ r.db.notes[n].body = NULL

\* C8 (updated_at strictly increases), as claimed: every update answered
\* 200, whatever its payload, leaves the note with an updated_at strictly
\* greater than before (the clock having advanced since the note was last
\* written).
C8_UpdatedAtIncreases ==
    \A n \in DOMAIN notes :
        \A t \in OwnerTokens(n), u \in NoteUpdates :
            LET r == update_note(DB, t, n, u) IN
            r.resp.status = 200 /\ notes[n].updated_at < now =>
               r.db.notes[n].updated_at > notes[n].updated_at

\* C9 (idempotent visibility of delete), as claimed: once a delete of id N
\* by its owner was answered 204, every get, update and delete on id N by
\* that user is answered 404, in every state reached since.
C9_DeletedStaysNotFound ==
    \A d \in deleted :
        \A t \in {x \in FreshTokens : UserOf(x) = d[1]} :
            /\ read_note(DB, t, d[2]).resp.status = 404
            /\ delete_note(DB, t, d[2]).resp.status = 404
            /\ \A u \in NoteUpdates :
                  update_note(DB, t, d[2], u).resp.status = 404

\* C10 (create round-trips): a create by an authenticated user with a title
\* of at most 255 characters is answered 201, and after every create
\* answered 201 a get of the returned id by the same user right after it is
\* answered 200 with the title and the body supplied, the body null when
\* the payload left it out.
C10_CreateRoundTrip ==
    \A t \in FreshTokens, c \in NoteCreates :
        LET r == create_note(DB, t, c)
            g == read_note(r.db, t, r.resp.body[1].id) IN
        /\ Len(c.title) <= TITLE_MAX_LENGTH => r.resp.status = 201
        /\ r.resp.status = 201 =>
              /\ r.resp.body[1].id \notin DOMAIN notes
              /\ g.resp.status = 200
              /\ g.resp.body[1].id = r.resp.body[1].id
              /\ g.resp.body[1].title = c.title
              /\ g.resp.body[1].body = IF c.body = Unset THEN NULL ELSE c.body
              /\ r.resp.body[1] = g.resp.body[1]

\* Two notes of one user were created, one with a body and one without:
\* the gets return "milk" and null.
C10_Witness ==
    \E n, m \in DOMAIN notes :
        \E t \in OwnerTokens(n) \cap OwnerTokens(m) :
            /\ read_note(DB, t, n).resp.status = 200
            /\ read_note(DB, t, n).resp.body[1].body = "milk"
            /\ read_note(DB, t, m).resp.status = 200
            /\ read_note(DB, t, m).resp.body[1].body = NULL
            /\ read_note(DB, t, m).resp.body[1].title = "Chores"
            /\ \A c \in NoteCreates :
                  c.title # LongTitle =>
                     create_note(DB, t, c).resp.status = 201

\* The notes of the user a token was issued to.
OwnNotes(t) == {n \in DOMAIN notes : notes[n].user_id = UserOf(t)}

\* C11 (list), as claimed: for every skip and limit the query string can
\* carry, the list of an authenticated caller is answered 200 with notes of
\* the caller only, each at most once, at most limit of them and none of
\* the first skip; the empty array when the caller has no notes, and every
\* note of the caller with the defaults (skip 0, limit 100).
C11_List ==
    \A t \in FreshTokens, sk \in Skips, li \in Limits :
        \A r \in read_notes(DB, t, sk, li) :
            /\ r.resp.status = 200
            /\ \A k \in DOMAIN r.resp.body : r.resp.body[k].id \in OwnNotes(t)
            /\ \A j, k \in DOMAIN r.resp.body :
                  r.resp.body[j].id = r.resp.body[k].id => j = k
            /\ Len(r.resp.body) <= li
            /\ Len(r.resp.body) + sk <= Cardinality(OwnNotes(t))
                  \/ r.resp.body = <<>>
            /\ OwnNotes(t) = {} => r.resp.body = <<>>
            /\ sk = 0 /\ li = 100 =>
                  {r.resp.body[k].id : k \in DOMAIN r.resp.body} = OwnNotes(t)

\* The database without the note n.
Without(n) == [DB EXCEPT !.notes = Remove(notes, n)]

\* C12 (foreign and missing notes are indistinguishable): for every
\* authenticated user B and every note N of another user, the response
\* (status, detail, headers, body) of B's get, of each of B's updates and of
\* B's delete on N is the 404 response B gets when no note N is stored, and
\* neither request changes the database.
C12_ForeignAsMissing ==
    \A t \in FreshTokens, n \in DOMAIN notes :
        notes[n].user_id # UserOf(t) =>
            /\ read_note(DB, t, n).resp = read_note(Without(n), t, n).resp
            /\ read_note(DB, t, n).resp.status = 404
            /\ delete_note(DB, t, n).resp = delete_note(Without(n), t, n).resp
            /\ delete_note(DB, t, n).db = DB
            /\ delete_note(Without(n), t, n).db = Without(n)
            /\ \A u \in NoteUpdates :
                  /\ update_note(DB, t, n, u).resp =
                        update_note(Without(n), t, n, u).resp
                  /\ update_note(DB, t, n, u).db = DB
                  /\ update_note(Without(n), t, n, u).db = Without(n)

\* User B is shown the same 404 for the id of another user's note and, once
\* that note is gone, for the same id.
C12_Witness ==
    \E t \in FreshTokens, n \in DOMAIN notes :
        /\ notes[n].user_id # UserOf(t)
        /\ \E a \in FreshTokens :
              UserOf(a) = notes[n].user_id /\
              delete_note(DB, a, n).db = Without(n)
        /\ delete_note(DB, t, n).resp = NotFound(n)
        /\ delete_note(Without(n), t, n).resp = NotFound(n)
        /\ read_note(DB, t, n).resp = NotFound(n)

\* A request that did not succeed.
Failed(r) == r.resp.status \notin {200, 201, 204}

\* The stored users and notes are what they were before the request.
Intact(r) == r.db.users = users /\ r.db.notes = notes

\* C13 (no partial failure): in every reachable state, every request of
\* every handler, with any token and any payload, that is answered with
\* something else than 200, 201 or 204 (400, 401, 404, 500) leaves the
\* stored users and notes exactly as they are; so does an INSERT of
\* register that fails.
C13_NoPartialFailure ==
    /\ \A c \in UserCreates, s \in Salts :
          /\ Failed(register(DB, c, s)) => Intact(register(DB, c, s))
          /\ Failed(create_user(DB, c, s)) => Intact(create_user(DB, c, s))
    /\ \A c \in UserLogins : Failed(login(DB, c)) => Intact(login(DB, c))
    /\ \A t \in PresentedTokens :
          /\ \A c \in NoteCreates :
                Failed(create_note(DB, t, c)) => Intact(create_note(DB, t, c))
          /\ \A sk \in Skips, li \in Limits :
                \A r \in read_notes(DB, t, sk, li) : Failed(r) => Intact(r)
          /\ \A n \in NoteIds :
                /\ Failed(read_note(DB, t, n)) => Intact(read_note(DB, t, n))
                /\ Failed(delete_note(DB, t, n)) =>
                      Intact(delete_note(DB, t, n))
                /\ \A u \in NoteUpdates :
                      Failed(update_note(DB, t, n, u)) =>
                         Intact(update_note(DB, t, n, u))

\* The owner's update of a note with body "milk" that sets the body and
\* sets the title to null is answered 500 and the note keeps its body; a
\* register of a stored username is answered 400.
C13_Witness ==
    \E n \in DOMAIN notes :
        \E t \in OwnerTokens(n) :
            /\ notes[n].body = "milk"
            /\ LET r == update_note(DB, t, n, [title |-> NULL, body |-> NULL])
               IN r.resp.status = 500 /\ r.db.notes[n].body = "milk"
            /\ \E c \in UserCreates, s \in Salts :
                  register(DB, c, s).resp.status = 400
            /\ \E m \in NoteIds : read_note(DB, t, m).resp.status = 404

\* C14 (note data-model invariant), as claimed: in every reachable state
\* every stored note has a title that is not null and has at most 255
\* characters.
C14_TitleInvariant ==
    \A n \in DOMAIN notes :
        notes[n].title # NULL /\ Len(notes[n].title) <= 255

\* C15 (concurrent registration), as claimed: every register request, also
\* one whose lookup ran before another register of the same username
\* committed, ends with 201 or with 400, never with an internal error.
C15_RegisterOutcome ==
    \A s \in 1..MaxInFlight :
        pending[s].op = "idle" => pending[s].status \in {0, 201, 400}

\* The requests in flight between the existence check and the commit.
InFlight(op) == {s \in 1..MaxInFlight : pending[s].op = op}

\* C16 (concurrent mutation of one note), as claimed: when updates and
\* deletes of one note interleave between the existence check and the
\* commit, every update ends with 200 or 404 and every delete with 204 or
\* 404; an update that commits after the note was deleted does not bring it
\* back; and of two updates in flight on the note as it is stored, one
\* setting the title and one the body, both take effect.
C16_ConcurrentMutation ==
    /\ \A s \in InFlight("idle") : pending[s].status \in {0, 200, 204, 404}
    /\ \A s \in InFlight("update") :
          LET p == pending[s]
              r == stale_update_note(DB, p.note_id, p.loaded, p.note_in) IN
          /\ r.resp.status \in {200, 404}
          /\ p.note_id \notin DOMAIN notes => p.note_id \notin DOMAIN r.db.notes
    /\ \A s \in InFlight("delete") :
          crud_delete_note(DB, pending[s].note_id).resp.status \in {204, 404}
    /\ \A s1, s2 \in InFlight("update") :
          LET p == pending[s1]
              q == pending[s2]
              r1 == stale_update_note(DB, p.note_id, p.loaded, p.note_in)
              r2 == stale_update_note(r1.db, q.note_id, q.loaded, q.note_in)
          IN
          /\ p.note_id = q.note_id
          /\ p.note_id \in DOMAIN notes
          /\ p.loaded = notes[p.note_id] /\ q.loaded = notes[p.note_id]
          /\ p.note_in.title # Unset /\ p.note_in.body = Unset
          /\ q.note_in.title = Unset /\ q.note_in.body # Unset
          => /\ r2.db.notes[p.note_id].title = p.note_in.title
             /\ r2.db.notes[p.note_id].body = q.note_in.body

====
